---------------------------- MODULE Spec2Model ----------------------------
(***************************************************************************)
(* A model of src/kanjidic.rs: the KANJIDIC2 decode pipeline               *)
(* (Kanjidic::from_file, parse_header, parse_entry and the group and leaf  *)
(* parsers below it) and the query facade (filter_meaning).                *)
(*                                                                         *)
(* Representation.  A Rust String is a sequence of one-character strings   *)
(* (<<"1", "0">> is "10"), so that str::parse::<u32> and u32::to_string    *)
(* are computed digit by digit.  Tag and attribute NAMES are TLA+ strings. *)
(* An XML node is a record                                                 *)
(*   [element, tag, attrs, text, children]                                 *)
(* where attrs is a sequence of <<name, value>> pairs with distinct names, *)
(* text is an Option (<<>> or <<s>>) and children is a sequence of nodes.  *)
(* Option<T> is <<>> (None) or <<v>> (Some(v)); Result<T, E> is Ok(v) or   *)
(* Err(e).                                                                 *)
(***************************************************************************)
EXTENDS Integers, Sequences, FiniteSets, TLC

VARIABLES input, pc, result, found, edits

vars == <<input, pc, result, found, edits>>

None == <<>>
Some(v) == <<v>>
Ok(v) == [ok |-> TRUE, val |-> v]
Err(e) == [ok |-> FALSE, err |-> e]

---------------------------------------------------------------------------
(* String literals of the source. *)
S_nelson_c == <<"n", "e", "l", "s", "o", "n", "_", "c">>
S_nelson_n == <<"n", "e", "l", "s", "o", "n", "_", "n">>
S_halpern_njecd == <<"h", "a", "l", "p", "e", "r", "n", "_", "n", "j", "e", "c", "d">>
S_halpern_kkd == <<"h", "a", "l", "p", "e", "r", "n", "_", "k", "k", "d">>
S_halpern_kkld == <<"h", "a", "l", "p", "e", "r", "n", "_", "k", "k", "l", "d">>
S_halpern_kkld_2ed == <<"h", "a", "l", "p", "e", "r", "n", "_", "k", "k", "l", "d", "_", "2", "e", "d">>
S_heisig == <<"h", "e", "i", "s", "i", "g">>
S_heisig6 == <<"h", "e", "i", "s", "i", "g", "6">>
S_gakken == <<"g", "a", "k", "k", "e", "n">>
S_oneill_names == <<"o", "n", "e", "i", "l", "l", "_", "n", "a", "m", "e", "s">>
S_oneill_kk == <<"o", "n", "e", "i", "l", "l", "_", "k", "k">>
S_henshall == <<"h", "e", "n", "s", "h", "a", "l", "l">>
S_henshall3 == <<"h", "e", "n", "s", "h", "a", "l", "l", "3">>
S_sh_kk == <<"s", "h", "_", "k", "k">>
S_sh_kk2 == <<"s", "h", "_", "k", "k", "2">>
S_sakade == <<"s", "a", "k", "a", "d", "e">>
S_jf_cards == <<"j", "f", "_", "c", "a", "r", "d", "s">>
S_tutt_cards == <<"t", "u", "t", "t", "_", "c", "a", "r", "d", "s">>
S_crowley == <<"c", "r", "o", "w", "l", "e", "y">>
S_kanji_in_context == <<"k", "a", "n", "j", "i", "_", "i", "n", "_", "c", "o", "n", "t", "e", "x", "t">>
S_busy_people == <<"b", "u", "s", "y", "_", "p", "e", "o", "p", "l", "e">>
S_kodansha_compact == <<"k", "o", "d", "a", "n", "s", "h", "a", "_", "c", "o", "m", "p", "a", "c", "t">>
S_maniette == <<"m", "a", "n", "i", "e", "t", "t", "e">>
S_moro == <<"m", "o", "r", "o">>
S_classical == <<"c", "l", "a", "s", "s", "i", "c", "a", "l">>
S_pinyin == <<"p", "i", "n", "y", "i", "n">>
S_korean_r == <<"k", "o", "r", "e", "a", "n", "_", "r">>
S_korean_h == <<"k", "o", "r", "e", "a", "n", "_", "h">>
S_vietnam == <<"v", "i", "e", "t", "n", "a", "m">>
S_ja_on == <<"j", "a", "_", "o", "n">>
S_ja_kun == <<"j", "a", "_", "k", "u", "n">>
S_kan == <<"k", "a", "n">>
S_go == <<"g", "o">>
S_tou == <<"t", "o", "u">>
S_en == <<"e", "n">>
S_kanyou == <<"k", "a", "n", "'", "y", "o", "u">>

---------------------------------------------------------------------------
(* Error values (crate::errors). *)
MissingTag(tag) == [kind |-> "MissingTag", tag |-> tag]
MissingText(tag) == [kind |-> "MissingText", tag |-> tag]
MissingAttr(attr) == [kind |-> "MissingAttr", attr |-> attr]
ParseIntError(why) == [kind |-> "ParseInt", why |-> why]
ParseEnumError(value, valids) == [kind |-> "ParseEnum", value |-> value, valids |-> valids]
IndexError(i) == [kind |-> "RadicalIndex", index |-> i]

---------------------------------------------------------------------------
(* Value converters: str::parse::<u32> and u32::to_string. *)
(* u32::MAX = 4294967295, digit by digit: TLC's integers end at 2^31 - 1, *)
(* so the overflow test compares numerals and the inputs that parse stay *)
(* below 2^31.                                                           *)
U32MaxDigits == <<4, 2, 9, 4, 9, 6, 7, 2, 9, 5>>

DigitVal(c) ==
  CASE c = "0" -> 0 [] c = "1" -> 1 [] c = "2" -> 2 [] c = "3" -> 3 [] c = "4" -> 4
    [] c = "5" -> 5 [] c = "6" -> 6 [] c = "7" -> 7 [] c = "8" -> 8 [] c = "9" -> 9
    [] OTHER -> -1

DigitChar(d) ==
  CASE d = 0 -> "0" [] d = 1 -> "1" [] d = 2 -> "2" [] d = 3 -> "3" [] d = 4 -> "4"
    [] d = 5 -> "5" [] d = 6 -> "6" [] d = 7 -> "7" [] d = 8 -> "8" [] d = 9 -> "9"

RECURSIVE StripZeros(_)
StripZeros(ds) == IF ds # <<>> /\ Head(ds) = 0 THEN StripZeros(Tail(ds)) ELSE ds

(* Whether the numeral ds (digit values, no leading zero) is above u32::MAX. *)
AboveU32Max(ds) ==
  \/ Len(ds) > Len(U32MaxDigits)
  \/ /\ Len(ds) = Len(U32MaxDigits)
     /\ \E k \in 1..Len(ds) :
          /\ ds[k] > U32MaxDigits[k]
          /\ \A j \in 1..(k - 1) : ds[j] = U32MaxDigits[j]

(* The digit loop of from_str_radix over s[from..]: k is the next character, *)
(* n the value of the digits before it.                                      *)
RECURSIVE ParseDigits(_, _, _, _)
ParseDigits(s, from, k, n) ==
  IF k > Len(s) THEN Ok(n)
  ELSE IF DigitVal(s[k]) < 0 THEN Err(ParseIntError("InvalidDigit"))
  ELSE IF AboveU32Max(StripZeros([j \in 1..(k + 1 - from) |-> DigitVal(s[from + j - 1])]))
       THEN Err(ParseIntError("PosOverflow"))
  ELSE ParseDigits(s, from, k + 1, n * 10 + DigitVal(s[k]))

ParseU32(s) ==
  IF Len(s) = 0 THEN Err(ParseIntError("Empty"))
  ELSE IF Len(s) = 1 /\ s[1] \in {"+", "-"} THEN Err(ParseIntError("InvalidDigit"))
  ELSE IF s[1] = "+" THEN ParseDigits(s, 2, 2, 0)
  ELSE ParseDigits(s, 1, 1, 0)

RECURSIVE u32_to_string(_)
u32_to_string(i) ==
  IF i < 10 THEN <<DigitChar(i)>>
  ELSE u32_to_string(i \div 10) \o <<DigitChar(i % 10)>>

---------------------------------------------------------------------------
(* Collaborators: crate::util and crate::radicals. *)
get_node_text(n) ==
  IF n.text = None \/ n.text[1] = <<>>
  THEN Err(MissingText(n.tag))
  ELSE Ok(n.text[1])

attribute(n, name) ==
  IF \E k \in 1..Len(n.attrs) : n.attrs[k][1] = name
  THEN Some(n.attrs[CHOOSE k \in 1..Len(n.attrs) : n.attrs[k][1] = name][2])
  ELSE None

get_node_attr(n, name) ==
  IF attribute(n, name) = None
  THEN Err(MissingAttr(name))
  ELSE Ok(attribute(n, name)[1])

find_child_tag_err(n, tag) ==
  IF \E k \in 1..Len(n.children) : n.children[k].tag = tag
  THEN Ok(n.children[CHOOSE k \in 1..Len(n.children) :
                        /\ n.children[k].tag = tag
                        /\ \A j \in 1..(k - 1) : n.children[j].tag # tag])
  ELSE Err(MissingTag(tag))

NumRadicals == 214

index_radical(i) ==
  IF 1 <= i /\ i <= NumRadicals THEN Ok(<<"#">> \o u32_to_string(i)) ELSE Err(IndexError(i))

(* The ? operator: the value of an Ok goes on to the rest, an Err returns. *)
Try(r, rest(_)) == IF r.ok THEN rest(r.val) ELSE r

(* Iterator::collect::<Result<Vec<_>, _>>: the results are taken in order *)
(* and the first Err ends the collection.                                 *)
RECURSIVE CollectFrom(_, _, _)
CollectFrom(rs, k, acc) ==
  IF k > Len(rs) THEN Ok(acc)
  ELSE Try(rs[k], LAMBDA v : CollectFrom(rs, k + 1, Append(acc, v)))

Collect(rs) == CollectFrom(rs, 1, <<>>)

ChildrenTagged(n, tag) == SelectSeq(n.children, LAMBDA c : c.tag = tag)

MapSeq(s, f(_)) == [k \in 1..Len(s) |-> f(s[k])]

---------------------------------------------------------------------------
(* parse_header *)
parse_header(header) ==
  Try(find_child_tag_err(header, "file_version"), LAMBDA file_version_node :
  Try(get_node_text(file_version_node), LAMBDA file_version_text :
  Try(ParseU32(file_version_text), LAMBDA file_version :
  Try(find_child_tag_err(header, "database_version"), LAMBDA database_version_node :
  Try(get_node_text(database_version_node), LAMBDA database_version :
  Try(find_child_tag_err(header, "date_of_creation"), LAMBDA creation_date_node :
  Try(get_node_text(creation_date_node), LAMBDA creation_date :
  Ok([file_version |-> file_version, database_version |-> database_version,
      creation_date |-> creation_date]))))))))

(* parse_codepoint *)
parse_codepoint(n) ==
  Try(get_node_attr(n, "cp_type"), LAMBDA standard :
  Try(get_node_text(n), LAMBDA value :
  Ok([standard |-> standard, value |-> value])))

(* parse_radical *)
RadicalValids == <<S_classical, S_nelson_c>>

RadicalClassification(attr) ==
  CASE attr = S_classical -> Ok("Classical")
    [] attr = S_nelson_c -> Ok("NelsonC")
    [] OTHER -> Err(ParseEnumError(attr, RadicalValids))

parse_radical(n) ==
  Try(get_node_attr(n, "rad_type"), LAMBDA classification_attr :
  Try(RadicalClassification(classification_attr), LAMBDA classification :
  Try(get_node_text(n), LAMBDA text :
  Try(ParseU32(text), LAMBDA value_num :
  Try(index_radical(value_num), LAMBDA value :
  Ok([classification |-> classification, value |-> value]))))))

---------------------------------------------------------------------------
(* parse_misc: the arms of the match, the loop body over one child, the   *)
(* loop, and the tail after the loop.                                     *)
GradeValids ==
  <<<<"1">>, <<"2">>, <<"3">>, <<"4">>, <<"5">>, <<"6">>, <<"8">>, <<"9">>, <<"1", "0">>>>

(* Mutant of ClassifyGrade: the range arm written 1..=7. *)
ClassifyGradeThrough7(i) ==
  IF 1 <= i /\ i <= 7 THEN Ok(Some([variant |-> "Kyouiku", year |-> i]))
  ELSE IF i = 8 THEN Ok(Some([variant |-> "Jouyou"]))
  ELSE IF i = 9 THEN Ok(Some([variant |-> "Jinmeiyou"]))
  ELSE IF i = 10 THEN Ok(Some([variant |-> "JouyouVariant"]))
  ELSE Err(ParseEnumError(u32_to_string(i), GradeValids))

ClassifyGrade(i) ==
  IF 1 <= i /\ i <= 6 THEN Ok(Some([variant |-> "Kyouiku", year |-> i]))
  ELSE IF i = 8 THEN Ok(Some([variant |-> "Jouyou"]))
  ELSE IF i = 9 THEN Ok(Some([variant |-> "Jinmeiyou"]))
  ELSE IF i = 10 THEN Ok(Some([variant |-> "JouyouVariant"]))
  ELSE Err(ParseEnumError(u32_to_string(i), GradeValids))

(* text?.parse()? *)
TextParse(text) == Try(text, LAMBDA s : ParseU32(s))

MiscEmpty == [grade |-> None, stroke_counts |-> <<>>, freq |-> None, old_jlpt |-> None]

MiscGrade(acc, text) ==
  Try(TextParse(text), LAMBDA i :
  Try(ClassifyGrade(i), LAMBDA g :
  Ok([acc EXCEPT !.grade = g])))

MiscStrokeCount(acc, text) ==
  Try(TextParse(text), LAMBDA i : Ok([acc EXCEPT !.stroke_counts = Append(@, i)]))

(* Mutant of MiscFreq: the first freq is kept. *)
MiscFreqKeepFirst(acc, text) ==
  Try(TextParse(text), LAMBDA i :
  Ok(IF acc.freq = None THEN [acc EXCEPT !.freq = Some(i)] ELSE acc))

MiscFreq(acc, text) ==
  Try(TextParse(text), LAMBDA i : Ok([acc EXCEPT !.freq = Some(i)]))

MiscJlpt(acc, text) ==
  Try(TextParse(text), LAMBDA i : Ok([acc EXCEPT !.old_jlpt = Some(i)]))

MiscMatch(acc, tag_name, text) ==
  CASE tag_name = "grade" -> MiscGrade(acc, text)
    [] tag_name = "stroke_count" -> MiscStrokeCount(acc, text)
    [] tag_name = "freq" -> MiscFreq(acc, text)
    [] tag_name = "jlpt" -> MiscJlpt(acc, text)
    [] OTHER -> Ok(acc)

(* Mutant of MiscStep: let text = get_node_text(c)?; before the match. *)
MiscStepTextFirst(acc, c) ==
  Try(get_node_text(c), LAMBDA t : MiscMatch(acc, c.tag, Ok(t)))

MiscStep(acc, c) == MiscMatch(acc, c.tag, get_node_text(c))

RECURSIVE MiscLoop(_, _, _)
MiscLoop(cs, k, acc) ==
  IF k > Len(cs) THEN Ok(acc)
  ELSE Try(MiscStep(acc, cs[k]), LAMBDA next : MiscLoop(cs, k + 1, next))

(* Mutant of MiscFinish: the last stroke count taken as the canonical one. *)
MiscFinishLast(acc) ==
  IF acc.stroke_counts = <<>> THEN Err(MissingTag("stroke_count"))
  ELSE Ok([grade |-> acc.grade,
           stroke_count |-> acc.stroke_counts[Len(acc.stroke_counts)],
           stroke_miscounts |-> SubSeq(acc.stroke_counts, 1, Len(acc.stroke_counts) - 1),
           freq |-> acc.freq,
           old_jlpt |-> acc.old_jlpt])

MiscFinish(acc) ==
  IF acc.stroke_counts = <<>> THEN Err(MissingTag("stroke_count"))
  ELSE Ok([grade |-> acc.grade,
           stroke_count |-> Head(acc.stroke_counts),
           stroke_miscounts |-> Tail(acc.stroke_counts),
           freq |-> acc.freq,
           old_jlpt |-> acc.old_jlpt])

parse_misc(n) == Try(MiscLoop(n.children, 1, MiscEmpty), LAMBDA acc : MiscFinish(acc))

---------------------------------------------------------------------------
(* parse_dic_ref: the match arms that only wrap the text, in source order. *)
DicRefTable ==
  << <<S_nelson_c, "NelsonC">>, <<S_nelson_n, "NelsonN">>,
     <<S_halpern_njecd, "HalpernNJECD">>, <<S_halpern_kkd, "HalpernKKD">>,
     <<S_halpern_kkld, "HalpernKKLD">>, <<S_halpern_kkld_2ed, "HalpernKKLD2">>,
     <<S_heisig, "Heisig">>, <<S_heisig6, "Heisig6">>, <<S_gakken, "Gakken">>,
     <<S_oneill_names, "OneillNames">>, <<S_oneill_kk, "OneillKK">>,
     <<S_henshall, "Henshall">>, <<S_henshall3, "Henshall3">>,
     <<S_sh_kk, "SHKK">>, <<S_sh_kk2, "SHKK2">>, <<S_sakade, "Sakade">>,
     <<S_jf_cards, "JFCards">>, <<S_tutt_cards, "TuttCards">>,
     <<S_crowley, "Crowley">>, <<S_kanji_in_context, "InContext">>,
     <<S_busy_people, "BusyPeople">>, <<S_kodansha_compact, "KodanshaCompact">>,
     <<S_maniette, "Maniette">> >>

(* The literals the match accepts: the table's arms and the "moro" arm. *)
DicRefAccepted == {DicRefTable[k][1] : k \in 1..Len(DicRefTable)} \cup {S_moro}

(* The vec! of the fallthrough arm, as written. *)
DicRefValids ==
  << S_nelson_c, S_nelson_c, S_halpern_njecd, S_halpern_kkd, S_halpern_kkld,
     S_halpern_kkld_2ed, S_heisig, S_heisig6, S_gakken, S_oneill_names,
     S_oneill_kk, S_henshall, S_henshall3, S_sh_kk, S_sh_kk2, S_sakade,
     S_jf_cards, S_tutt_cards, S_crowley, S_kanji_in_context, S_busy_people,
     S_kodansha_compact, S_maniette, S_moro >>

(* match n.attribute(name) { Some(v) => Some(v.parse()?), None => None } *)
ParseOptAttr(n, name) ==
  IF attribute(n, name) = None THEN Ok(None)
  ELSE Try(ParseU32(attribute(n, name)[1]), LAMBDA v : Ok(Some(v)))

DicRefMoro(n, num) ==
  Try(ParseOptAttr(n, "m_vol"), LAMBDA vol :
  Try(ParseOptAttr(n, "m_page"), LAMBDA page :
  Ok([variant |-> "Moro", num |-> num, vol |-> vol, page |-> page])))

DicRefDispatch(n, num, typ) ==
  IF \E k \in 1..Len(DicRefTable) : DicRefTable[k][1] = typ
  THEN LET k == CHOOSE j \in 1..Len(DicRefTable) :
                  /\ DicRefTable[j][1] = typ
                  /\ \A h \in 1..(j - 1) : DicRefTable[h][1] # typ
       IN Ok([variant |-> DicRefTable[k][2], num |-> num])
  ELSE IF typ = S_moro THEN DicRefMoro(n, num)
  ELSE Err(ParseEnumError(typ, DicRefValids))

parse_dic_ref(n) ==
  Try(get_node_text(n), LAMBDA num :
  Try(get_node_attr(n, "dr_type"), LAMBDA typ :
  DicRefDispatch(n, num, typ)))

parse_dic_ref_group(n) == Collect(MapSeq(ChildrenTagged(n, "dic_ref"), parse_dic_ref))

---------------------------------------------------------------------------
(* parse_reading and get_jouyou_approved *)
(* Mutant of get_jouyou_approved: the value of r_status is looked at. *)
get_jouyou_approved_by_value(n) ==
  get_node_attr(n, "r_status").ok /\ get_node_attr(n, "r_status").val # <<>>

get_jouyou_approved(n) == get_node_attr(n, "r_status").ok

OnyomiValids == <<S_kan, S_go, S_tou, S_kanyou>>

ReadingValids == <<S_pinyin, S_korean_r, S_korean_h, S_vietnam, S_ja_on, S_ja_kun>>

OnyomiMatch(ty) ==
  CASE ty = S_kan -> Ok("Kan")
    [] ty = S_go -> Ok("Go")
    [] ty = S_tou -> Ok("Tou")
    [] ty = S_kanyou -> Ok("Kanyou")
    [] OTHER -> Err(ParseEnumError(ty, OnyomiValids))

(* match get_node_attr(n, "on_type") { Ok(ty) => ..., Err(_) => None } *)
OnyomiTyp(n) ==
  IF get_node_attr(n, "on_type").ok
  THEN OnyomiMatch(get_node_attr(n, "on_type").val)
  ELSE Ok("None")

ReadingOnyomi(n) ==
  Try(OnyomiTyp(n), LAMBDA onyomi_typ :
  Ok([variant |-> "Onyomi", approved |-> get_jouyou_approved(n), on_type |-> onyomi_typ]))

ReadingTyp(n, typ) ==
  CASE typ = S_pinyin -> Ok([variant |-> "Pinyin"])
    [] typ = S_korean_r -> Ok([variant |-> "KoreanR"])
    [] typ = S_korean_h -> Ok([variant |-> "KoreanH"])
    [] typ = S_vietnam -> Ok([variant |-> "Vietnam"])
    [] typ = S_ja_on -> ReadingOnyomi(n)
    [] typ = S_ja_kun -> Ok([variant |-> "Kunyomi", approved |-> get_jouyou_approved(n)])
    [] OTHER -> Err(ParseEnumError(typ, ReadingValids))

parse_reading(n) ==
  Try(get_node_text(n), LAMBDA value :
  Try(get_node_attr(n, "r_type"), LAMBDA typ_attr :
  Try(ReadingTyp(n, typ_attr), LAMBDA typ :
  Ok([value |-> value, typ |-> typ]))))

---------------------------------------------------------------------------
(* parse_reading_group *)
MeaningLanguage(c) ==
  IF attribute(c, "m_lang") = None THEN S_en ELSE attribute(c, "m_lang")[1]

ParseMeaning(c) ==
  Try(get_node_text(c), LAMBDA content :
  Ok([content |-> content, language |-> MeaningLanguage(c)]))

ReadingGroupStep(acc, c) ==
  CASE c.tag = "reading" ->
         Try(parse_reading(c), LAMBDA reading :
         Ok([acc EXCEPT !.readings = Append(@, reading)]))
    [] c.tag = "meaning" ->
         Try(ParseMeaning(c), LAMBDA m :
         Ok([acc EXCEPT !.meanings = Append(@, m)]))
    [] OTHER -> Ok(acc)

RECURSIVE ReadingGroupLoop(_, _, _)
ReadingGroupLoop(cs, k, acc) ==
  IF k > Len(cs) THEN Ok(acc)
  ELSE Try(ReadingGroupStep(acc, cs[k]), LAMBDA next : ReadingGroupLoop(cs, k + 1, next))

parse_reading_group(n) ==
  ReadingGroupLoop(n.children, 1, [readings |-> <<>>, meanings |-> <<>>])

(* parse_reading_meanings *)
ReadingMeaningsStep(acc, c) ==
  CASE c.tag = "rmgroup" ->
         Try(parse_reading_group(c), LAMBDA rmgroup :
         Ok([acc EXCEPT !.reading_meanings = Append(@, rmgroup)]))
    [] c.tag = "nanori" ->
         Try(get_node_text(c), LAMBDA text :
         Ok([acc EXCEPT !.nanori_readings = Append(@, text)]))
    [] OTHER -> Ok(acc)

RECURSIVE ReadingMeaningsLoop(_, _, _)
ReadingMeaningsLoop(cs, k, acc) ==
  IF k > Len(cs) THEN Ok(acc)
  ELSE Try(ReadingMeaningsStep(acc, cs[k]),
           LAMBDA next : ReadingMeaningsLoop(cs, k + 1, next))

parse_reading_meanings(n) ==
  ReadingMeaningsLoop(n.children, 1, [reading_meanings |-> <<>>, nanori_readings |-> <<>>])

---------------------------------------------------------------------------
(* parse_entry: the arms of the match, the loop body over one child, the  *)
(* loop, and the assembly of the Entry.                                   *)
EntryEmpty ==
  [literal_op |-> None, codepoints_op |-> None, radicals_op |-> None, misc_op |-> None,
   dic_refs_op |-> None, readings_meanings_op |-> None, nanori_op |-> None]

(* Mutant of EntryLiteral: c.text().unwrap_or("") in place of get_node_text(c)?. *)
EntryLiteralOrEmpty(acc, c) ==
  Ok([acc EXCEPT !.literal_op = Some(IF c.text = None THEN <<>> ELSE c.text[1])])

EntryLiteral(acc, c) ==
  Try(get_node_text(c), LAMBDA t : Ok([acc EXCEPT !.literal_op = Some(t)]))

EntryCodepoints(acc, c) ==
  Try(Collect(MapSeq(ChildrenTagged(c, "cp_value"), parse_codepoint)), LAMBDA cps :
  Ok([acc EXCEPT !.codepoints_op = Some(cps)]))

EntryRadicals(acc, c) ==
  Try(Collect(MapSeq(ChildrenTagged(c, "rad_value"), parse_radical)), LAMBDA rads :
  Ok([acc EXCEPT !.radicals_op = Some(rads)]))

EntryMisc(acc, c) ==
  Try(parse_misc(c), LAMBDA m : Ok([acc EXCEPT !.misc_op = Some(m)]))

EntryDicRefs(acc, c) ==
  Try(parse_dic_ref_group(c), LAMBDA d : Ok([acc EXCEPT !.dic_refs_op = Some(d)]))

EntryReadings(acc, c) ==
  Try(parse_reading_meanings(c), LAMBDA rm :
  Ok([acc EXCEPT !.readings_meanings_op = Some(rm.reading_meanings),
                 !.nanori_op = Some(rm.nanori_readings)]))

EntryStep(acc, c) ==
  CASE c.tag = "literal" -> EntryLiteral(acc, c)
    [] c.tag = "codepoint" -> EntryCodepoints(acc, c)
    [] c.tag = "radical" -> EntryRadicals(acc, c)
    [] c.tag = "misc" -> EntryMisc(acc, c)
    [] c.tag = "dic_number" -> EntryDicRefs(acc, c)
    [] c.tag = "reading_meaning" -> EntryReadings(acc, c)
    [] OTHER -> Ok(acc)

RECURSIVE EntryLoop(_, _, _)
EntryLoop(cs, k, acc) ==
  IF k > Len(cs) THEN Ok(acc)
  ELSE Try(EntryStep(acc, cs[k]), LAMBDA next : EntryLoop(cs, k + 1, next))

(* Option::unwrap_or(Vec::new()) *)
UnwrapOrEmpty(op) == IF op = None THEN <<>> ELSE op[1]

(* Mutant of EntryFinish: the tag names of the codepoint and radical checks *)
(* exchanged.                                                              *)
EntryFinishSwappedTags(acc) ==
  IF acc.misc_op = None THEN Err(MissingTag("misc"))
  ELSE IF acc.literal_op = None THEN Err(MissingTag("literal"))
  ELSE IF acc.codepoints_op = None THEN Err(MissingTag("radical"))
  ELSE IF acc.radicals_op = None THEN Err(MissingTag("codepoint"))
  ELSE Ok([literal |-> acc.literal_op[1],
           codepoints |-> acc.codepoints_op[1],
           radicals |-> acc.radicals_op[1],
           grade |-> acc.misc_op[1].grade,
           stroke_count |-> acc.misc_op[1].stroke_count,
           stroke_miscounts |-> acc.misc_op[1].stroke_miscounts,
           freq |-> acc.misc_op[1].freq,
           old_jlpt |-> acc.misc_op[1].old_jlpt,
           dic_refs |-> IF acc.dic_refs_op = None THEN <<>> ELSE acc.dic_refs_op[1],
           reading_meanings |->
             IF acc.readings_meanings_op = None THEN <<>> ELSE acc.readings_meanings_op[1],
           nanori_readings |-> IF acc.nanori_op = None THEN <<>> ELSE acc.nanori_op[1]])

EntryFinish(acc) ==
  IF acc.misc_op = None THEN Err(MissingTag("misc"))
  ELSE IF acc.literal_op = None THEN Err(MissingTag("literal"))
  ELSE IF acc.codepoints_op = None THEN Err(MissingTag("codepoint"))
  ELSE IF acc.radicals_op = None THEN Err(MissingTag("radical"))
  ELSE Ok([literal |-> acc.literal_op[1],
           codepoints |-> acc.codepoints_op[1],
           radicals |-> acc.radicals_op[1],
           grade |-> acc.misc_op[1].grade,
           stroke_count |-> acc.misc_op[1].stroke_count,
           stroke_miscounts |-> acc.misc_op[1].stroke_miscounts,
           freq |-> acc.misc_op[1].freq,
           old_jlpt |-> acc.misc_op[1].old_jlpt,
           dic_refs |-> UnwrapOrEmpty(acc.dic_refs_op),
           reading_meanings |-> UnwrapOrEmpty(acc.readings_meanings_op),
           nanori_readings |-> UnwrapOrEmpty(acc.nanori_op)])

parse_entry(n) == Try(EntryLoop(n.children, 1, EntryEmpty), LAMBDA acc : EntryFinish(acc))

---------------------------------------------------------------------------
(* Kanjidic::from_file.  The file is [readable, wellformed, doc]: whether  *)
(* util::read_file and Document::parse succeed, and the document's root    *)
(* node when they do.                                                      *)
IsCharacter(c) == c.element /\ c.tag = "character"

CharacterChildren(root) == SelectSeq(root.children, IsCharacter)

(* Mutant of ParseEntries: filter_map(|c| parse_entry(c).ok()), which drops *)
(* the entries that fail instead of failing the load.                      *)
ParseEntriesSkipFailed(cs) ==
  Ok(MapSeq(SelectSeq(MapSeq(cs, parse_entry), LAMBDA r : r.ok), LAMBDA r : r.val))

ParseEntries(cs) == Collect(MapSeq(cs, parse_entry))

ReadAndParse(file) ==
  IF ~file.readable THEN Err([kind |-> "Io"])
  ELSE IF ~file.wellformed THEN Err([kind |-> "Roxml"])
  ELSE Ok(file.doc)

from_file(file) ==
  Try(ReadAndParse(file), LAMBDA doc :
  Try(find_child_tag_err(doc, "kanjidic2"), LAMBDA root :
  Try(find_child_tag_err(root, "header"), LAMBDA header :
  Try(parse_header(header), LAMBDA h :
  Try(ParseEntries(CharacterChildren(root)), LAMBDA es :
  Ok([file_version |-> h.file_version,
      database_version |-> h.database_version,
      creation_date |-> h.creation_date,
      entries |-> es]))))))

---------------------------------------------------------------------------
(* Kanjidic::filter_meaning.  The caller's predicate is the set of         *)
(* Meanings it holds of; the returned Vec<&Entry> is the sequence of the   *)
(* positions in self.entries the references point at.                      *)
RECURSIVE FlatMeanings(_)
FlatMeanings(rms) ==
  IF rms = <<>> THEN <<>> ELSE Head(rms).meanings \o FlatMeanings(Tail(rms))

(* Mutant of AnyMeaning: only the first reading/meaning group is searched. *)
AnyMeaningFirstGroup(e, predicate) ==
  /\ e.reading_meanings # <<>>
  /\ \E k \in 1..Len(e.reading_meanings[1].meanings) :
       e.reading_meanings[1].meanings[k] \in predicate

AnyMeaning(e, predicate) ==
  \E k \in 1..Len(FlatMeanings(e.reading_meanings)) :
    FlatMeanings(e.reading_meanings)[k] \in predicate

filter_meaning(self, predicate) ==
  SelectSeq([k \in 1..Len(self.entries) |-> k],
            LAMBDA k : AnyMeaning(self.entries[k], predicate))

---------------------------------------------------------------------------
(* Input documents.  Node constructors, then the bounded pools the         *)
(* specifications draw their inputs from.                                  *)
Elem(tag, attrs, text, children) ==
  [element |-> TRUE, tag |-> tag, attrs |-> attrs, text |-> text, children |-> children]

Leaf(tag, attrs, s) == Elem(tag, attrs, Some(s), <<>>)

TextNode(s) ==
  [element |-> FALSE, tag |-> "", attrs |-> <<>>, text |-> Some(s), children |-> <<>>]

(* All sequences over pool of length at most n. *)
SeqsUpTo(pool, n) == UNION {[1..k -> pool] : k \in 0..n}

MaxGrade == 12
MaxMiscChildren == 3
MaxUnknown == 2
MaxChars == 3

(* misc elements *)
MiscNode(children) == Elem("misc", <<>>, None, children)

GradeTexts ==
  {u32_to_string(i) : i \in 0..MaxGrade}
    \cup {<<"x">>, <<"+", "7">>, <<"0", "8">>, <<"-", "1">>, <<"+">>, <<"1", "0", "a">>,
          <<"4", "2", "9", "4", "9", "6", "7", "2", "9", "6">>}

GradeInputs ==
  {MiscNode(<<Leaf("grade", <<>>, t), Leaf("stroke_count", <<>>, <<"4">>)>>) : t \in GradeTexts}
    \cup {MiscNode(<<Elem("grade", <<>>, None, <<>>), Leaf("stroke_count", <<>>, <<"4">>)>>)}

MiscChildPool ==
  { Leaf("grade", <<>>, <<"2">>), Leaf("grade", <<>>, <<"8">>), Leaf("grade", <<>>, <<"7">>),
    Leaf("stroke_count", <<>>, <<"4">>), Leaf("stroke_count", <<>>, <<"5">>),
    Leaf("stroke_count", <<>>, <<"0">>),
    Leaf("freq", <<>>, <<"1">>), Leaf("freq", <<>>, <<"2", "5">>),
    Leaf("jlpt", <<>>, <<"1">>), Leaf("jlpt", <<>>, <<"2">>),
    Elem("rad_name", <<>>, None, <<>>), Elem("stroke_count", <<>>, None, <<>>) }

MiscInputs == GradeInputs \cup {MiscNode(cs) : cs \in SeqsUpTo(MiscChildPool, MaxMiscChildren)}

(* dic_ref elements *)
OptAttr(name, values) == {<<>>} \cup {<< <<name, v>> >> : v \in values}

DicRefTypes == DicRefAccepted \cup {<<"n", "e", "i", "l", "l", "_", "k", "k">>, <<"M", "o", "r", "o">>, <<>>}

DicRefInputs ==
  { Elem("dic_ref", ty \o vol \o page, text, <<>>) :
      ty \in OptAttr("dr_type", DicRefTypes),
      vol \in OptAttr("m_vol", {<<"1", "2">>, <<"v">>}),
      page \in OptAttr("m_page", {<<"3">>, <<>>}),
      text \in {None, Some(<<"7">>)} }

(* reading elements *)
ReadingInputs ==
  { Elem("reading", ty \o st \o on, text, <<>>) :
      ty \in OptAttr("r_type", {S_pinyin, S_korean_r, S_korean_h, S_vietnam, S_ja_on, S_ja_kun,
                                <<"j", "a">>}),
      st \in OptAttr("r_status", {<<>>, <<"j", "y">>}),
      on \in OptAttr("on_type", {S_kan, S_go, S_tou, S_kanyou, <<>>, <<"K", "a", "n">>}),
      text \in {None, Some(<<"h", "i">>)} }

(* character elements *)
M_sun == [content |-> <<"s", "u", "n">>, language |-> S_en]
M_day == [content |-> <<"d", "a", "y">>, language |-> S_en]
M_lune == [content |-> <<"l", "u", "n", "e">>, language |-> <<"f", "r">>]

MeaningNode(m) ==
  IF m.language = S_en THEN Leaf("meaning", <<>>, m.content)
  ELSE Leaf("meaning", << <<"m_lang", m.language>> >>, m.content)

RmGroup(ms) ==
  Elem("rmgroup", <<>>, None,
       << Leaf("reading", << <<"r_type", S_ja_kun>> >>, <<"h", "i">>) >>
         \o [k \in 1..Len(ms) |-> MeaningNode(ms[k])])

ReadingMeaning(groups) ==
  Elem("reading_meaning", <<>>, None,
       [k \in 1..Len(groups) |-> RmGroup(groups[k])] \o << Leaf("nanori", <<>>, <<"a", "k", "i">>) >>)

LiteralOk == Leaf("literal", <<>>, <<"A">>)
CodepointOk ==
  Elem("codepoint", <<>>, None,
       << Leaf("cp_value", << <<"cp_type", <<"u", "c", "s">>>> >>, <<"6", "5", "e", "5">>) >>)
RadicalOk ==
  Elem("radical", <<>>, None,
       << Leaf("rad_value", << <<"rad_type", S_classical>> >>, <<"7", "2">>) >>)
RadicalBad ==
  Elem("radical", <<>>, None,
       << Leaf("rad_value", << <<"rad_type", S_nelson_c>> >>, <<"0">>) >>)
MiscOk == MiscNode(<< Leaf("stroke_count", <<>>, <<"4">>), Leaf("grade", <<>>, <<"8">>) >>)
MiscNoStroke == MiscNode(<< Leaf("grade", <<>>, <<"8">>) >>)
MiscZeroStroke == MiscNode(<< Leaf("stroke_count", <<>>, <<"0">>) >>)
DicNumberOk ==
  Elem("dic_number", <<>>, None,
       << Leaf("dic_ref", << <<"dr_type", S_nelson_n>> >>, <<"1">>),
          Leaf("dic_ref", << <<"dr_type", S_moro>>, <<"m_vol", <<"5">>>> >>, <<"2">>) >>)
DicNumberBad ==
  Elem("dic_number", <<>>, None, << Leaf("dic_ref", << <<"dr_type", <<"x">>>> >>, <<"1">>) >>)

Character(children) == Elem("character", <<>>, None, children)

(* Every way of leaving groups out of a character element, in the usual *)
(* order and reversed, and elements with one child that fails to parse. *)
Rev(s) == [k \in 1..Len(s) |-> s[Len(s) + 1 - k]]

CharacterBodies ==
  { l \o c \o r \o m \o d \o rm :
      l \in {<<>>, <<LiteralOk>>}, c \in {<<>>, <<CodepointOk>>},
      r \in {<<>>, <<RadicalOk>>}, m \in {<<>>, <<MiscOk>>, <<MiscNoStroke>>},
      d \in {<<>>, <<DicNumberOk>>}, rm \in {<<>>, <<ReadingMeaning(<<<<M_sun>>>>)>>} }

CharacterInputs ==
  {Character(b) : b \in CharacterBodies}
    \cup {Character(Rev(b)) : b \in {x \in CharacterBodies : Len(x) >= 5}}
    \cup { Character(<<Elem("literal", <<>>, None, <<>>), CodepointOk, RadicalOk, MiscOk>>),
           Character(<<LiteralOk, CodepointOk, RadicalBad, MiscOk>>),
           Character(<<LiteralOk, CodepointOk, RadicalOk, MiscOk, DicNumberBad>>) }

(* documents *)
HeaderOk ==
  Elem("header", <<>>, None,
       << Leaf("file_version", <<>>, <<"4">>), Leaf("database_version", <<>>, <<"1", ".", "0">>),
          Leaf("date_of_creation", <<>>, <<"2", "0", "2", "4">>) >>)
HeaderBad ==
  Elem("header", <<>>, None,
       << Leaf("file_version", <<>>, <<"v", "4">>), Leaf("database_version", <<>>, <<"1", ".", "0">>),
          Leaf("date_of_creation", <<>>, <<"2", "0", "2", "4">>) >>)

File(rootChildren) ==
  [readable |-> TRUE, wellformed |-> TRUE,
   doc |-> [element |-> FALSE, tag |-> "", attrs |-> <<>>, text |-> None,
            children |-> << Elem("kanjidic2", <<>>, None, rootChildren) >>]]

FullCharacter(misc, groups) ==
  Character(<<LiteralOk, CodepointOk, RadicalOk, misc, DicNumberOk>>
              \o (IF groups = <<>> THEN <<>> ELSE <<ReadingMeaning(groups)>>))

RootChildPool ==
  { FullCharacter(MiscOk, << <<M_sun, M_day>>, <<M_sun>> >>),
    FullCharacter(MiscOk, << <<M_day>>, <<M_lune>> >>),
    FullCharacter(MiscOk, <<>>),
    FullCharacter(MiscZeroStroke, << <<>> >>),
    FullCharacter(MiscNoStroke, << <<M_sun>> >>),
    Character(<<LiteralOk, CodepointOk, RadicalOk>>),
    Character(<<Elem("literal", <<>>, None, <<>>), CodepointOk, RadicalOk, MiscOk>>),
    TextNode(<<" ">>) }

FileInputs ==
  {File(<<HeaderOk>> \o cs) : cs \in SeqsUpTo(RootChildPool, MaxChars)}
    \cup { File(<<FullCharacter(MiscOk, <<>>), HeaderOk, FullCharacter(MiscOk, <<>>)>>),
           File(<<HeaderBad, FullCharacter(MiscOk, <<>>)>>),
           File(<<FullCharacter(MiscOk, <<>>)>>),
           [File(<<HeaderOk>>) EXCEPT !.doc.children = <<>>],
           [File(<<HeaderOk>>) EXCEPT !.wellformed = FALSE],
           [File(<<HeaderOk>>) EXCEPT !.readable = FALSE] }

Predicates == SUBSET {M_sun, M_day, M_lune}

(* unrecognized children, by the element they are added to *)
Recognized(tag) ==
  CASE tag = "character" ->
         {"literal", "codepoint", "radical", "misc", "dic_number", "reading_meaning"}
    [] tag = "misc" -> {"grade", "stroke_count", "freq", "jlpt"}
    [] tag = "reading_meaning" -> {"rmgroup", "nanori"}
    [] tag = "rmgroup" -> {"reading", "meaning"}
    [] OTHER -> {}

UnknownPool ==
  { Elem("variant", <<>>, None, << Leaf("literal", <<>>, <<"B">>) >>),
    Leaf("grade", <<>>, <<"7">>) }

InsertChild(n, pos, c) ==
  [n EXCEPT !.children = SubSeq(@, 1, pos) \o <<c>> \o SubSeq(@, pos + 1, Len(@))]

(* The elements n' got from the character element n by adding one child c *)
(* with an unrecognized tag to n, to a misc or reading_meaning child of n, *)
(* or to an rmgroup child of a reading_meaning child of n.                 *)
AddTo(n, c) ==
  IF c.tag \in Recognized(n.tag) THEN {}
  ELSE {InsertChild(n, pos, c) : pos \in 0..Len(n.children)}

AddBelow(n, tags, c) ==
  UNION { {[n EXCEPT !.children[k] = m] : m \in AddTo(n.children[k], c)} :
            k \in {j \in 1..Len(n.children) : n.children[j].tag \in tags} }

AddUnknownTo(n, c) ==
  AddTo(n, c) \cup AddBelow(n, {"misc", "reading_meaning"}, c)
    \cup UNION { {[n EXCEPT !.children[k] = m] : m \in AddBelow(n.children[k], {"rmgroup"}, c)} :
                   k \in {j \in 1..Len(n.children) : n.children[j].tag = "reading_meaning"} }

---------------------------------------------------------------------------
(* Specification Spec: load a file, then query the loaded Kanjidic. *)
Init ==
  /\ input \in FileInputs
  /\ pc = "open"
  /\ result = None
  /\ found = None
  /\ edits = 0

Load ==
  /\ pc = "open"
  /\ result' = from_file(input)
  /\ pc' = IF result'.ok THEN "loaded" ELSE "failed"
  /\ UNCHANGED <<input, found, edits>>

FilterMeaning ==
  /\ pc \in {"loaded", "queried"}
  /\ \E predicate \in Predicates :
       found' = [predicate |-> predicate, hits |-> filter_meaning(result.val, predicate)]
  /\ pc' = "queried"
  /\ UNCHANGED <<input, result, edits>>

Next == Load \/ FilterMeaning

Spec == Init /\ [][Next]_vars

(* Specification SpecEntry: parse_entry on one character element, then on *)
(* the same element with unrecognized children added.                      *)
InitEntry ==
  /\ input \in CharacterInputs
  /\ pc = "entry"
  /\ result = None
  /\ found = None
  /\ edits = 0

CallParseEntry ==
  /\ pc = "entry"
  /\ result' = parse_entry(input)
  /\ found' = [node |-> input, parsed |-> parse_entry(input)]
  /\ pc' = "entry_done"
  /\ UNCHANGED <<input, edits>>

AddUnknown ==
  /\ pc = "entry_done"
  /\ edits < MaxUnknown
  /\ \E c \in UnknownPool : \E n \in AddUnknownTo(found.node, c) :
       found' = [node |-> n, parsed |-> parse_entry(n)]
  /\ edits' = edits + 1
  /\ UNCHANGED <<input, pc, result>>

NextEntry == CallParseEntry \/ AddUnknown

SpecEntry == InitEntry /\ [][NextEntry]_vars

(* Specification SpecMisc: parse_misc on one misc element, and from_file  *)
(* on a file whose one character element is valid but for that misc.      *)
InitMisc ==
  /\ input \in MiscInputs
  /\ pc = "misc"
  /\ result = None
  /\ found = None
  /\ edits = 0

CallParseMisc ==
  /\ pc = "misc"
  /\ result' = parse_misc(input)
  /\ found' = from_file(File(<<HeaderOk, FullCharacter(input, <<>>)>>))
  /\ pc' = "misc_done"
  /\ UNCHANGED <<input, edits>>

SpecMisc == InitMisc /\ [][CallParseMisc]_vars

(* Specification SpecDicRef: parse_dic_ref on one dic_ref element. *)
InitDicRef ==
  /\ input \in DicRefInputs
  /\ pc = "dic_ref"
  /\ result = None
  /\ found = None
  /\ edits = 0

CallParseDicRef ==
  /\ pc = "dic_ref"
  /\ result' = parse_dic_ref(input)
  /\ pc' = "dic_ref_done"
  /\ UNCHANGED <<input, found, edits>>

SpecDicRef == InitDicRef /\ [][CallParseDicRef]_vars

(* Specification SpecReading: parse_reading on one reading element. *)
InitReading ==
  /\ input \in ReadingInputs
  /\ pc = "reading"
  /\ result = None
  /\ found = None
  /\ edits = 0

CallParseReading ==
  /\ pc = "reading"
  /\ result' = parse_reading(input)
  /\ pc' = "reading_done"
  /\ UNCHANGED <<input, found, edits>>

SpecReading == InitReading /\ [][CallParseReading]_vars

---------------------------------------------------------------------------
(* Properties.  Helpers that read the input document directly. *)
HasChild(n, tag) == \E k \in 1..Len(n.children) : n.children[k].tag = tag

HasAttr(n, name) == \E k \in 1..Len(n.attrs) : n.attrs[k][1] = name

AttrValue(n, name) == n.attrs[CHOOSE k \in 1..Len(n.attrs) : n.attrs[k][1] = name][2]

LastChild(n, tag) ==
  n.children[CHOOSE k \in 1..Len(n.children) :
               /\ n.children[k].tag = tag
               /\ \A j \in (k + 1)..Len(n.children) : n.children[j].tag # tag]

FirstChild(n, tag) ==
  n.children[CHOOSE k \in 1..Len(n.children) :
               /\ n.children[k].tag = tag
               /\ \A j \in 1..(k - 1) : n.children[j].tag # tag]

(* The root element and its character children, when root and header parse. *)
HeaderParses(file) ==
  /\ file.readable /\ file.wellformed
  /\ HasChild(file.doc, "kanjidic2")
  /\ HasChild(FirstChild(file.doc, "kanjidic2"), "header")
  /\ parse_header(FirstChild(FirstChild(file.doc, "kanjidic2"), "header")).ok

Characters(file) ==
  SelectSeq(FirstChild(file.doc, "kanjidic2").children,
            LAMBDA c : c.element /\ c.tag = "character")

Loaded == pc \in {"loaded", "failed", "queried"}

(* C1: from_file is all-or-nothing and fail-fast in document order: when  *)
(* the root and header parse, a failing character child makes the result  *)
(* the Err of the first failing character child; otherwise the result is  *)
(* Ok with one Entry per character child, in document order.              *)
C1_FailFast ==
  (Loaded /\ HeaderParses(input)) =>
    LET cs == Characters(input)
        failing == {k \in 1..Len(cs) : ~parse_entry(cs[k]).ok}
    IN IF failing # {}
       THEN /\ ~result.ok
            /\ \E k \in failing :
                 /\ \A j \in failing : k <= j
                 /\ result.err = parse_entry(cs[k]).err
       ELSE /\ result.ok
            /\ Len(result.val.entries) = Len(cs)
            /\ \A k \in 1..Len(cs) : result.val.entries[k] = parse_entry(cs[k]).val

(* A load that fails after an entry parsed, on the first of two character *)
(* children that fail differently.                                        *)
C1_Witness ==
  /\ pc = "failed" /\ HeaderParses(input)
  /\ LET cs == Characters(input) IN
       /\ Len(cs) = 3
       /\ parse_entry(cs[1]).ok /\ ~parse_entry(cs[2]).ok /\ ~parse_entry(cs[3]).ok
       /\ parse_entry(cs[2]).err # parse_entry(cs[3]).err
       /\ result = parse_entry(cs[2])

(* C2: parse_entry enforces its mandatory slots: when the children that   *)
(* are present all parse, Ok requires literal, codepoint, radical and     *)
(* misc; exactly one of them absent gives MissingTag of that tag; with    *)
(* none absent the parse is Ok, and an absent dic_number or               *)
(* reading_meaning gives empty dic_refs, reading_meanings and             *)
(* nanori_readings.                                                       *)
Mandatory == {"literal", "codepoint", "radical", "misc"}

ChildrenParse(n) == \A k \in 1..Len(n.children) : EntryStep(EntryEmpty, n.children[k]).ok

C2_MandatorySlots ==
  (pc = "entry_done" /\ ChildrenParse(found.node)) =>
    LET n == found.node
        r == found.parsed
        absent == {t \in Mandatory : ~HasChild(n, t)}
    IN /\ r.ok <=> absent = {}
       /\ \A t \in Mandatory : absent = {t} => r = Err(MissingTag(t))
       /\ (r.ok /\ ~HasChild(n, "dic_number")) => r.val.dic_refs = <<>>
       /\ (r.ok /\ ~HasChild(n, "reading_meaning")) =>
            r.val.reading_meanings = <<>> /\ r.val.nanori_readings = <<>>

(* Only the radical group is absent, and the parse names it. *)
C2_Witness ==
  /\ pc = "entry_done" /\ ChildrenParse(found.node)
  /\ {t \in Mandatory : ~HasChild(found.node, t)} = {"radical"}
  /\ ~HasChild(found.node, "dic_number")
  /\ found.parsed = Err(MissingTag("radical"))

(* C3: grade classification in parse_misc.  For a misc element with one   *)
(* grade child, the other children parsing: grade text that parses as i   *)
(* gives Kyouiku(i) for 1..6, Jouyou for 8, Jinmeiyou for 9,              *)
(* JouyouVariant for 10, and for any other i the enumeration error with   *)
(* value i and valids 1,2,3,4,5,6,8,9,10; non-numeric grade text gives a  *)
(* numeric conversion error.                                              *)
GradeChildren(n) == SelectSeq(n.children, LAMBDA c : c.tag = "grade")

OthersParse(n) ==
  \A k \in 1..Len(n.children) :
    n.children[k].tag # "grade" => MiscStep(MiscEmpty, n.children[k]).ok

ExpectedGrade(i) ==
  CASE i \in 1..6 -> [variant |-> "Kyouiku", year |-> i]
    [] i = 8 -> [variant |-> "Jouyou"]
    [] i = 9 -> [variant |-> "Jinmeiyou"]
    [] i = 10 -> [variant |-> "JouyouVariant"]

C3_GradeClassification ==
  (/\ pc = "misc_done"
   /\ Len(GradeChildren(input)) = 1
   /\ OthersParse(input)
   /\ get_node_text(GradeChildren(input)[1]).ok) =>
    LET i == ParseU32(GradeChildren(input)[1].text[1]) IN
    IF ~i.ok THEN ~result.ok /\ result.err.kind = "ParseInt"
    ELSE IF i.val \in (1..6) \cup {8, 9, 10}
    THEN HasChild(input, "stroke_count") =>
           result.ok /\ result.val.grade = Some(ExpectedGrade(i.val))
    ELSE /\ ~result.ok
         /\ result.err.kind = "ParseEnum"
         /\ ParseU32(result.err.value) = Ok(i.val)
         /\ result.err.valids =
              <<<<"1">>, <<"2">>, <<"3">>, <<"4">>, <<"5">>, <<"6">>, <<"8">>, <<"9">>,
                <<"1", "0">>>>

(* Grade text 7 is refused with the enumeration error. *)
C3_Witness ==
  /\ pc = "misc_done"
  /\ Len(GradeChildren(input)) = 1
  /\ OthersParse(input)
  /\ GradeChildren(input)[1].text = Some(<<"7">>)
  /\ ~result.ok /\ result.err.kind = "ParseEnum" /\ result.err.value = <<"7">>

(* C4 (as stated): every Entry of a loaded Kanjidic has a non-empty   *)
(* literal and a stroke_count of at least 1.                              *)
C4_StrokeCountPositive ==
  pc \in {"loaded", "queried"} =>
    \A k \in 1..Len(result.val.entries) :
      /\ result.val.entries[k].literal # <<>>
      /\ result.val.entries[k].stroke_count >= 1

(* C4 (amended): every Entry of a loaded Kanjidic has a non-empty literal *)
(* and its stroke_count is the u32 parsed from the first stroke_count     *)
(* child of its misc element, which may be 0.                             *)
C4_LiteralAndFirstStroke ==
  pc \in {"loaded", "queried"} =>
    \A k \in 1..Len(result.val.entries) :
      LET e == result.val.entries[k]
          misc == LastChild(Characters(input)[k], "misc")
      IN /\ e.literal # <<>>
         /\ e.stroke_count >= 0
         /\ Ok(e.stroke_count) = ParseU32(FirstChild(misc, "stroke_count").text[1])

(* A loaded Entry whose stroke_count is 0. *)
C4_Witness ==
  /\ pc = "loaded"
  /\ \E k \in 1..Len(result.val.entries) :
       /\ result.val.entries[k].stroke_count = 0
       /\ result.val.entries[k].literal = <<"A">>

(* C5 (as stated): with two or more grade (freq, jlpt) children that all  *)
(* parse, parse_misc keeps the value of the first one.                    *)
TaggedChildren(n, tag) == SelectSeq(n.children, LAMBDA c : c.tag = tag)

C5_FirstWins ==
  (pc = "misc_done" /\ result.ok) =>
    /\ Len(TaggedChildren(input, "grade")) >= 2 =>
         result.val.grade =
           Some(ExpectedGrade(ParseU32(TaggedChildren(input, "grade")[1].text[1]).val))
    /\ Len(TaggedChildren(input, "freq")) >= 2 =>
         result.val.freq = Some(ParseU32(TaggedChildren(input, "freq")[1].text[1]).val)
    /\ Len(TaggedChildren(input, "jlpt")) >= 2 =>
         result.val.old_jlpt = Some(ParseU32(TaggedChildren(input, "jlpt")[1].text[1]).val)

(* C5 (amended): grade, freq and old_jlpt each hold at most one value and *)
(* the last occurrence wins: when parse_misc succeeds, each is None       *)
(* without such a child and otherwise the value of the last such child in *)
(* document order.                                                        *)
LastOf(s) == s[Len(s)]

C5_LastWins ==
  (pc = "misc_done" /\ result.ok) =>
    /\ result.val.grade =
         IF TaggedChildren(input, "grade") = <<>> THEN None
         ELSE Some(ExpectedGrade(ParseU32(LastOf(TaggedChildren(input, "grade")).text[1]).val))
    /\ result.val.freq =
         IF TaggedChildren(input, "freq") = <<>> THEN None
         ELSE Some(ParseU32(LastOf(TaggedChildren(input, "freq")).text[1]).val)
    /\ result.val.old_jlpt =
         IF TaggedChildren(input, "jlpt") = <<>> THEN None
         ELSE Some(ParseU32(LastOf(TaggedChildren(input, "jlpt")).text[1]).val)

(* Two freq children with different values, and the second is kept. *)
C5_Witness ==
  /\ pc = "misc_done" /\ result.ok
  /\ Len(TaggedChildren(input, "freq")) = 2
  /\ TaggedChildren(input, "freq")[1].text = Some(<<"1">>)
  /\ TaggedChildren(input, "freq")[2].text = Some(<<"2", "5">>)
  /\ result.val.freq = Some(25)

(* C6: stroke counts in parse_misc.  When the children of a misc element  *)
(* parse, with stroke_count values s1..sn in document order: for n >= 1   *)
(* stroke_count = s1 and stroke_miscounts = <<s2..sn>>; for n = 0         *)
(* parse_misc fails with MissingTag("stroke_count"), and so does          *)
(* from_file on a file whose character element is otherwise valid.        *)
MiscChildrenParse(n) ==
  \A k \in 1..Len(n.children) : MiscStep(MiscEmpty, n.children[k]).ok

StrokeValues(n) ==
  [k \in 1..Len(TaggedChildren(n, "stroke_count")) |->
     ParseU32(TaggedChildren(n, "stroke_count")[k].text[1]).val]

C6_StrokeCounts ==
  (pc = "misc_done" /\ MiscChildrenParse(input)) =>
    LET ss == StrokeValues(input) IN
    IF Len(ss) >= 1
    THEN /\ result.ok
         /\ result.val.stroke_count = ss[1]
         /\ Len(result.val.stroke_miscounts) = Len(ss) - 1
         /\ \A k \in 2..Len(ss) : result.val.stroke_miscounts[k - 1] = ss[k]
         /\ found.ok
         /\ found.val.entries[1].stroke_count = ss[1]
         /\ found.val.entries[1].stroke_miscounts = result.val.stroke_miscounts
    ELSE /\ result = Err(MissingTag("stroke_count"))
         /\ found = Err(MissingTag("stroke_count"))

(* Three stroke counts, the first the canonical one. *)
C6_Witness ==
  /\ pc = "misc_done" /\ MiscChildrenParse(input)
  /\ StrokeValues(input) = <<5, 4, 0>>
  /\ result.ok
  /\ result.val.stroke_count = 5
  /\ result.val.stroke_miscounts = <<4, 0>>

(* C7: dictionary-reference type dispatch in parse_dic_ref.  A dr_type   *)
(* the match does not accept fails with the enumeration error carrying    *)
(* that value and a candidate list in which every accepted literal        *)
(* appears, none twice, its length the number of accepted literals; every *)
(* accepted literal maps to its own DicRef variant carrying the text.     *)
NoDuplicates(s) == \A i, j \in 1..Len(s) : s[i] = s[j] => i = j

C7_DicRefDispatch ==
  (/\ pc = "dic_ref_done"
   /\ get_node_text(input).ok
   /\ HasAttr(input, "dr_type")) =>
    IF AttrValue(input, "dr_type") \in DicRefAccepted
    THEN /\ result.ok => result.val.num = input.text[1]
         /\ \A other \in DicRefInputs :
              (/\ HasAttr(other, "dr_type")
               /\ AttrValue(other, "dr_type") \in DicRefAccepted
               /\ AttrValue(other, "dr_type") # AttrValue(input, "dr_type")
               /\ parse_dic_ref(other).ok /\ result.ok)
                => parse_dic_ref(other).val.variant # result.val.variant
    ELSE /\ ~result.ok
         /\ result.err.kind = "ParseEnum"
         /\ result.err.value = AttrValue(input, "dr_type")
         /\ \A lit \in DicRefAccepted :
              \E k \in 1..Len(result.err.valids) : result.err.valids[k] = lit
         /\ NoDuplicates(result.err.valids)
         /\ Len(result.err.valids) = Cardinality(DicRefAccepted)

(* C8: Japanese reading attributes in parse_reading.  For ja_on and       *)
(* ja_kun the flag is TRUE exactly when r_status is present, whatever its *)
(* value; for ja_on an absent on_type gives OnyomiType::None, a present   *)
(* kan, go, tou or kan'you gives that variant and any other present value *)
(* the enumeration error listing those four; for the other four types     *)
(* r_status and on_type are not inspected.                                *)
OnyomiOf(v) ==
  CASE v = <<"k", "a", "n">> -> "Kan"
    [] v = <<"g", "o">> -> "Go"
    [] v = <<"t", "o", "u">> -> "Tou"
    [] v = <<"k", "a", "n", "'", "y", "o", "u">> -> "Kanyou"
    [] OTHER -> "?"

ForeignVariant(v) ==
  CASE v = S_pinyin -> "Pinyin"
    [] v = S_korean_r -> "KoreanR"
    [] v = S_korean_h -> "KoreanH"
    [] v = S_vietnam -> "Vietnam"
    [] OTHER -> "?"

C8_ReadingAttributes ==
  (/\ pc = "reading_done"
   /\ get_node_text(input).ok
   /\ HasAttr(input, "r_type")) =>
    LET ty == AttrValue(input, "r_type") IN
    /\ ty = S_ja_kun =>
         result = Ok([value |-> input.text[1],
                      typ |-> [variant |-> "Kunyomi",
                               approved |-> HasAttr(input, "r_status")]])
    /\ (ty = S_ja_on /\ ~HasAttr(input, "on_type")) =>
         result = Ok([value |-> input.text[1],
                      typ |-> [variant |-> "Onyomi",
                               approved |-> HasAttr(input, "r_status"),
                               on_type |-> "None"]])
    /\ (ty = S_ja_on /\ HasAttr(input, "on_type")) =>
         IF OnyomiOf(AttrValue(input, "on_type")) # "?"
         THEN result = Ok([value |-> input.text[1],
                           typ |-> [variant |-> "Onyomi",
                                    approved |-> HasAttr(input, "r_status"),
                                    on_type |-> OnyomiOf(AttrValue(input, "on_type"))]])
         ELSE result = Err(ParseEnumError(AttrValue(input, "on_type"),
                                          <<<<"k", "a", "n">>, <<"g", "o">>, <<"t", "o", "u">>,
                                            <<"k", "a", "n", "'", "y", "o", "u">>>>))
    /\ ForeignVariant(ty) # "?" =>
         result = Ok([value |-> input.text[1], typ |-> [variant |-> ForeignVariant(ty)]])

(* A ja_kun reading whose r_status is the empty string is approved. *)
C8_Witness ==
  /\ pc = "reading_done"
  /\ HasAttr(input, "r_type") /\ AttrValue(input, "r_type") = S_ja_kun
  /\ HasAttr(input, "r_status") /\ AttrValue(input, "r_status") = <<>>
  /\ result.ok /\ result.val.typ.approved

(* C9: filter_meaning(predicate) returns exactly the Entries with at      *)
(* least one Meaning, in any reading/meaning group, the predicate holds   *)
(* of: each once, in document order; an always-false predicate gives the  *)
(* empty list; the entries are as from_file built them.                   *)
Matches(e, predicate) ==
  \E g \in 1..Len(e.reading_meanings) :
    \E m \in 1..Len(e.reading_meanings[g].meanings) :
      e.reading_meanings[g].meanings[m] \in predicate

C9_FilterMeaning ==
  pc = "queried" =>
    LET es == result.val.entries
        hits == found.hits
    IN /\ \A k \in 1..Len(es) :
            Matches(es[k], found.predicate) <=> \E j \in 1..Len(hits) : hits[j] = k
       /\ \A j \in 1..Len(hits) : hits[j] \in 1..Len(es)
       /\ \A i, j \in 1..Len(hits) : i < j => hits[i] < hits[j]
       /\ found.predicate = {} => hits = <<>>
       /\ result = from_file(input)

(* Three entries: the first matches in both its groups and is returned    *)
(* once, the second matches in its second group only, the third has no    *)
(* reading/meaning group.                                                 *)
C9_Witness ==
  /\ pc = "queried"
  /\ input = File(<<HeaderOk,
                    FullCharacter(MiscOk, << <<M_sun, M_day>>, <<M_sun>> >>),
                    FullCharacter(MiscOk, << <<M_day>>, <<M_lune>> >>),
                    FullCharacter(MiscOk, <<>>)>>)
  /\ found.predicate = {M_sun, M_lune}
  /\ Len(result.val.entries) = 3
  /\ found.hits = <<1, 2>>

(* C10: unrecognized children are skipped at every dispatch level: adding *)
(* children with unrecognized tag names to a character element, to its    *)
(* misc or reading_meaning child or to an rmgroup below it, at any        *)
(* position, with or without text, changes neither whether parse_entry    *)
(* succeeds nor the Entry or the error it returns.                        *)
C10_UnknownSkipped ==
  pc = "entry_done" => found.parsed = result

(* Two children added to an element that parses: one without text to its *)
(* misc element, and a grade element, which parse_entry does not know, to *)
(* the character element itself.                                          *)
C10_Witness ==
  /\ pc = "entry_done" /\ edits = 2
  /\ result.ok /\ found.parsed.ok
  /\ HasChild(found.node, "misc")
  /\ HasChild(LastChild(found.node, "misc"), "variant")
  /\ HasChild(found.node, "grade")

====
